---------------------------- MODULE Spec2Model ----------------------------
(***************************************************************************)
(* Model of the calculation engine run_cba() of src/app.py (lines 117-204) *)
(* and of the module-level inputs it reads (lines 61-112).                 *)
(*                                                                         *)
(* Numbers.  The Python code computes on int/float values.  The model      *)
(* computes on exact rationals <<n, d>> (d > 0, lowest terms), so every    *)
(* arithmetic identity below is an identity of exact arithmetic; the       *)
(* rounding of IEEE doubles is not modelled.  Division is the one          *)
(* operation that can fault: Python raises ZeroDivisionError on x / 0 and  *)
(* on x / 0.0, and the model records that as fault = "ZeroDivisionError".  *)
(***************************************************************************)
EXTENDS Integers, Sequences, FiniteSets

(***************************************************************************)
(* Exact rational arithmetic.                                              *)
(***************************************************************************)
Abs(x) == IF x < 0 THEN 0 - x ELSE x

RECURSIVE GCD(_, _)
GCD(a, b) == IF b = 0 THEN a ELSE GCD(b, a % b)

\* The rational n/d (d # 0) in lowest terms with a positive denominator.
Norm(n, d) ==
    LET g == GCD(Abs(n), Abs(d))
        s == IF d < 0 THEN 0 - 1 ELSE 1
    IN  <<(s * n) \div g, (s * d) \div g>>

R(n) == <<n, 1>>
Zero == R(0)
One == R(1)

RAdd(a, b) ==
    LET g == GCD(a[2], b[2])
    IN  Norm(a[1] * (b[2] \div g) + b[1] * (a[2] \div g), a[2] * (b[2] \div g))
RNeg(a) == <<0 - a[1], a[2]>>
RSub(a, b) == RAdd(a, RNeg(b))
RMul(a, b) ==
    LET x == Norm(a[1], b[2])
        y == Norm(b[1], a[2])
    IN  Norm(x[1] * y[1], x[2] * y[2])
\* a / b, defined for b # 0 only: the callers test b and raise otherwise.
RDiv(a, b) == RMul(a, Norm(b[2], b[1]))
RGeq(a, b) == a[1] * b[2] >= b[1] * a[2]
RLt(a, b) == ~RGeq(a, b)

\* x ** t for an integer t >= 0; Python gives x ** 0 = 1 for every x, 0 included.
RECURSIVE RPow(_, _)
RPow(x, t) == IF t = 0 THEN One ELSE RMul(x, RPow(x, t - 1))

(***************************************************************************)
(* Bounds of the model and the input values it enumerates.                 *)
(***************************************************************************)
MaxHorizon == 3

\* Literal constants of the code.
DaysPerYear == 365
Million == 1000000

\* horizon (line 61): the engine is modelled for every integer it may be handed,
\* -1 (an empty range) included.
HorizonValues == (0 - 1)..MaxHorizon
\* discount_rate (line 62): -100 %, 0 % and 100 %.
RateValues == {R(0 - 1), Zero, One}
VotAutoValues == {R(2)}
VotTruckValues == {R(4)}
VocAutoValues == {R(1)}
VocTruckValues == {R(3)}
AccCostValues == {R(100000)}
EmissionCostValues == {One}
CapitalValues == {R(0 - 20), Zero, R(20), R(40)}
MaintBaseValues == {Zero, R(10), R(50)}
MaintBuildValues == {Zero, R(10)}
TruckPctValues == {Zero, Norm(1, 2)}
BaseAdtValues == {R(2)}
BuildAdtValues == {R(2), R(4)}
BaseSpeedValues == {Zero, One}
BuildSpeedValues == {Zero, One, R(2)}
BaseLengthValues == {One}
BuildLengthValues == {Zero, One, R(2)}
BaseAccRateValues == {One}
BuildAccRateValues == {Zero, One}

VARIABLES
    \* the inputs (module globals read by run_cba)
    horizon, discount_rate, vot_auto, vot_truck, voc_auto, voc_truck,
    avg_acc_cost, emission_cost_per_mile, cost_construct, cost_maint_base,
    cost_maint_build, truck_pct, base_adt, base_speed, base_length,
    base_acc_rate, build_adt, build_speed, build_length, build_acc_rate,
    \* the locals of run_cba
    ben_time_annual, ben_voc_annual, ben_safety_annual, ben_emission_annual,
    cost_maint_net_annual, t, results_breakdown, flow_net,
    total_pv_ben, total_pv_cost, npv, bcr, irr, irr_call, payback, cum, i,
    \* control: the position in run_cba and, when an exception left it, the
    \* exception and the line that raised it
    pc, fault, fault_line

inputs == <<horizon, discount_rate, vot_auto, vot_truck, voc_auto, voc_truck,
            avg_acc_cost, emission_cost_per_mile, cost_construct, cost_maint_base,
            cost_maint_build, truck_pct, base_adt, base_speed, base_length,
            base_acc_rate, build_adt, build_speed, build_length, build_acc_rate>>
benefits == <<ben_time_annual, ben_voc_annual, ben_safety_annual,
              ben_emission_annual, cost_maint_net_annual>>
projection == <<t, results_breakdown, flow_net>>
indicators == <<total_pv_ben, total_pv_cost, npv, bcr>>
irrvars == <<irr, irr_call>>
paybackvars == <<payback, cum, i>>
control == <<pc, fault, fault_line>>
vars == <<inputs, benefits, projection, indicators, irrvars, paybackvars, control>>

Categories == {"Time", "VOC", "Safety", "Emissions", "Capital", "O&M"}
NotReached == [kind |-> "Not Reached"]
Year(n) == [kind |-> "year", year |-> n]
Unset == [kind |-> "unset"]
Num(x) == [kind |-> "num", val |-> x]
NaN == [kind |-> "nan"]

Init ==
    /\ horizon \in HorizonValues
    /\ discount_rate \in RateValues
    /\ vot_auto \in VotAutoValues
    /\ vot_truck \in VotTruckValues
    /\ voc_auto \in VocAutoValues
    /\ voc_truck \in VocTruckValues
    /\ avg_acc_cost \in AccCostValues
    /\ emission_cost_per_mile \in EmissionCostValues
    /\ cost_construct \in CapitalValues
    /\ cost_maint_base \in MaintBaseValues
    /\ cost_maint_build \in MaintBuildValues
    /\ truck_pct \in TruckPctValues
    /\ base_adt \in BaseAdtValues
    /\ base_speed \in BaseSpeedValues
    /\ base_length \in BaseLengthValues
    /\ base_acc_rate \in BaseAccRateValues
    /\ build_adt \in BuildAdtValues
    /\ build_speed \in BuildSpeedValues
    /\ build_length \in BuildLengthValues
    /\ build_acc_rate \in BuildAccRateValues
    /\ ben_time_annual = Zero
    /\ ben_voc_annual = Zero
    /\ ben_safety_annual = Zero
    /\ ben_emission_annual = Zero
    /\ cost_maint_net_annual = Zero
    /\ t = 0
    /\ results_breakdown = [k \in Categories |-> Zero]
    /\ flow_net = <<>>
    /\ total_pv_ben = Zero
    /\ total_pv_cost = Zero
    /\ npv = Zero
    /\ bcr = Zero
    /\ irr = Unset
    /\ irr_call = "pending"
    /\ payback = Unset
    /\ cum = Zero
    /\ i = 0
    /\ pc = "setup"
    /\ fault = "none"
    /\ fault_line = 0

\* An exception leaves run_cba: nothing is returned.
Raise(e, line) ==
    /\ pc' = "raised"
    /\ fault' = e
    /\ fault_line' = line

(***************************************************************************)
(* Lines 119-150: the annual benefit streams and the net maintenance cost. *)
(***************************************************************************)
avg_vot == RAdd(RMul(vot_truck, truck_pct), RMul(vot_auto, RSub(One, truck_pct)))
avg_voc == RAdd(RMul(voc_truck, truck_pct), RMul(voc_auto, RSub(One, truck_pct)))
daily_vol_avg == RDiv(RAdd(base_adt, build_adt), R(2))
vmt_base_annual == RMul(RMul(base_adt, R(DaysPerYear)), base_length)
vmt_build_annual == RMul(RMul(build_adt, R(DaysPerYear)), build_length)
time_cost_base == RMul(RDiv(base_length, base_speed), avg_vot)
time_cost_build == RMul(RDiv(build_length, build_speed), avg_vot)
BenTimeAnnual ==
    RMul(RMul(RSub(time_cost_base, time_cost_build), daily_vol_avg), R(DaysPerYear))
voc_cost_base == RMul(base_length, avg_voc)
voc_cost_build == RMul(build_length, avg_voc)
BenVocAnnual ==
    RMul(RMul(RSub(voc_cost_base, voc_cost_build), daily_vol_avg), R(DaysPerYear))
crashes_base == RMul(RDiv(vmt_base_annual, R(Million)), base_acc_rate)
crashes_build == RMul(RDiv(vmt_build_annual, R(Million)), build_acc_rate)
BenSafetyAnnual == RMul(RSub(crashes_base, crashes_build), avg_acc_cost)
\* Mutant: the emission benefit valued on the sum of the two VMT totals.
BenEmissionAnnualSum ==
    RMul(RAdd(vmt_base_annual, vmt_build_annual), emission_cost_per_mile)
BenEmissionAnnual ==
    RMul(RSub(vmt_base_annual, vmt_build_annual), emission_cost_per_mile)
CostMaintNetAnnual == RSub(cost_maint_build, cost_maint_base)

\* Lines 119-160.  base_length / base_speed (line 132) and build_length /
\* build_speed (line 133) raise ZeroDivisionError on a zero speed.
Setup ==
    /\ pc = "setup"
    /\ \/ /\ base_speed = Zero
          /\ Raise("ZeroDivisionError", 132)
          /\ UNCHANGED <<benefits, projection>>
       \/ /\ base_speed # Zero
          /\ build_speed = Zero
          /\ Raise("ZeroDivisionError", 133)
          /\ UNCHANGED <<benefits, projection>>
       \/ /\ base_speed # Zero
          /\ build_speed # Zero
          /\ ben_time_annual' = BenTimeAnnual
          /\ ben_voc_annual' = BenVocAnnual
          /\ ben_safety_annual' = BenSafetyAnnual
          /\ ben_emission_annual' = BenEmissionAnnual
          /\ cost_maint_net_annual' = CostMaintNetAnnual
          /\ t' = 0
          /\ results_breakdown' = [k \in Categories |-> Zero]
          /\ flow_net' = <<>>
          /\ pc' = "loop"
          /\ UNCHANGED <<fault, fault_line>>
    /\ UNCHANGED <<inputs, indicators, irrvars, paybackvars>>

(***************************************************************************)
(* Lines 152-180: the cash flow loop, one iteration per action.            *)
(***************************************************************************)
\* Mutant: range(horizon), which drops the last year.
YearsCountExclusive == horizon

\* Line 153: years = range(horizon + 1) has horizon + 1 elements (none when
\* horizon < 0), visited as t = 0, 1, ...
YearsCount == horizon + 1

\* Line 163: df_factor = 1 / ((1 + discount_rate) ** t).
DfBase(tt) == RPow(RAdd(One, discount_rate), tt)
DfFactor(tt) == RDiv(One, DfBase(tt))

\* Lines 169-171: the net flow of an operating year.
YrBen ==
    RAdd(RAdd(RAdd(ben_time_annual, ben_voc_annual), ben_safety_annual),
         ben_emission_annual)
\* Mutant: the maintenance delta added to the benefits.
YrNetAddsCost == RAdd(YrBen, cost_maint_net_annual)
YrNet == RSub(YrBen, cost_maint_net_annual)

\* Mutant: the maintenance delta accumulated without discounting.
AccumulatePVUndiscountedOM(rb, df) ==
    [rb EXCEPT !["Time"] = RAdd(@, RMul(ben_time_annual, df)),
               !["VOC"] = RAdd(@, RMul(ben_voc_annual, df)),
               !["Safety"] = RAdd(@, RMul(ben_safety_annual, df)),
               !["Emissions"] = RAdd(@, RMul(ben_emission_annual, df)),
               !["O&M"] = RAdd(@, cost_maint_net_annual)]

\* Lines 174-178: the present-value accumulation of an operating year.
AccumulatePV(rb, df) ==
    [rb EXCEPT !["Time"] = RAdd(@, RMul(ben_time_annual, df)),
               !["VOC"] = RAdd(@, RMul(ben_voc_annual, df)),
               !["Safety"] = RAdd(@, RMul(ben_safety_annual, df)),
               !["Emissions"] = RAdd(@, RMul(ben_emission_annual, df)),
               !["O&M"] = RAdd(@, RMul(cost_maint_net_annual, df))]

\* Mutant: the capital cost entered as an inflow.
YrNetYear0Inflow == cost_construct

\* Line 166: the net flow of year 0.
YrNetYear0 == RNeg(cost_construct)

\* Line 167: year 0 books the capital cost at its nominal value.
AccumulateCapital(rb) == [rb EXCEPT !["Capital"] = RAdd(@, cost_construct)]

LoopIter ==
    /\ pc = "loop"
    /\ t < YearsCount
    /\ \/ /\ DfBase(t) = Zero
          /\ Raise("ZeroDivisionError", 163)
          /\ UNCHANGED projection
       \/ /\ DfBase(t) # Zero
          /\ t = 0
          /\ results_breakdown' = AccumulateCapital(results_breakdown)
          /\ flow_net' = Append(flow_net, YrNetYear0)
          /\ t' = t + 1
          /\ UNCHANGED control
       \/ /\ DfBase(t) # Zero
          /\ t # 0
          /\ results_breakdown' = AccumulatePV(results_breakdown, DfFactor(t))
          /\ flow_net' = Append(flow_net, YrNet)
          /\ t' = t + 1
          /\ UNCHANGED control
    /\ UNCHANGED <<inputs, benefits, indicators, irrvars, paybackvars>>

LoopExit ==
    /\ pc = "loop"
    /\ t >= YearsCount
    /\ pc' = "indicators"
    /\ UNCHANGED <<inputs, benefits, projection, indicators, irrvars, paybackvars,
                   fault, fault_line>>

(***************************************************************************)
(* Lines 182-187: the indicators read off the category totals.             *)
(***************************************************************************)
TotalPvBen(rb) ==
    RAdd(RAdd(RAdd(rb["Time"], rb["VOC"]), rb["Safety"]), rb["Emissions"])
TotalPvCost(rb) == RAdd(rb["Capital"], rb["O&M"])
\* Mutant: the ratio guarded by total_pv_cost > 0.
BcrPositiveCostOnly(ben, cost) == IF RLt(Zero, cost) THEN RDiv(ben, cost) ELSE Zero
\* Line 187: bcr = total_pv_ben / total_pv_cost if total_pv_cost != 0 else 0.
Bcr(ben, cost) == IF cost # Zero THEN RDiv(ben, cost) ELSE Zero

Indicators ==
    /\ pc = "indicators"
    /\ total_pv_ben' = TotalPvBen(results_breakdown)
    /\ total_pv_cost' = TotalPvCost(results_breakdown)
    /\ npv' = RSub(TotalPvBen(results_breakdown), TotalPvCost(results_breakdown))
    /\ bcr' = Bcr(TotalPvBen(results_breakdown), TotalPvCost(results_breakdown))
    /\ pc' = "irr"
    /\ UNCHANGED <<inputs, benefits, projection, irrvars, paybackvars,
                   fault, fault_line>>

(***************************************************************************)
(* Lines 189-193: the internal rate of return.  npf.irr is a library call: *)
(* the model gives it every outcome the library can produce.  It raises on *)
(* an empty sequence (values[0]) and when the eigenvalue solver behind     *)
(* np.roots does not converge; it returns nan when it finds no rate; else  *)
(* it returns a rate r > -1 with sum(flow[k] / (1 + r) ** k) = 0.  The     *)
(* rates the model can name are IrrCandidates; any other root is the       *)
(* unnamed value OtherRoot, which is none of the candidates.               *)
(***************************************************************************)
IrrCandidates == {Norm(0 - 1, 2), Zero, One}
OtherRoot == [kind |-> "root"]
Raised == [kind |-> "raise"]

RECURSIVE NPVAt(_, _)
\* sum over k of flow[k + 1] / (1 + r) ** k
NPVAt(flow, r) ==
    IF flow = <<>> THEN Zero
    ELSE RAdd(Head(flow), RDiv(NPVAt(Tail(flow), r), RAdd(One, r)))

SignChange(flow) ==
    /\ \E k \in DOMAIN flow : RLt(Zero, flow[k])
    /\ \E k \in DOMAIN flow : RLt(flow[k], Zero)

NpfIrr(flow) ==
    IF ~SignChange(flow) THEN {Raised, NaN}
    ELSE LET roots == {Num(r) : r \in {c \in IrrCandidates : NPVAt(flow, c) = Zero}}
         IN  {Raised, OtherRoot} \cup (IF roots = {} THEN {NaN} ELSE roots)

\* Line 193: the value the bare except clause gives irr.
IrrOnExcept == Num(Zero)

\* Mutant: no try/except around npf.irr, so its exception leaves run_cba.
IrrStepNoCatch ==
    /\ pc = "irr"
    /\ \E o \in NpfIrr(flow_net) :
          /\ irr_call' = o.kind
          /\ \/ /\ o = Raised
                /\ Raise("Exception", 191)
                /\ UNCHANGED irr
             \/ /\ o # Raised
                /\ irr' = o
                /\ pc' = "payback_init"
                /\ UNCHANGED <<fault, fault_line>>
    /\ UNCHANGED <<inputs, benefits, projection, indicators, paybackvars>>

IrrStep ==
    /\ pc = "irr"
    /\ \E o \in NpfIrr(flow_net) :
          /\ irr_call' = o.kind
          /\ irr' = IF o = Raised THEN IrrOnExcept ELSE o
    /\ pc' = "payback_init"
    /\ UNCHANGED <<inputs, benefits, projection, indicators, paybackvars,
                   fault, fault_line>>

(***************************************************************************)
(* Lines 195-204: the payback loop, one iteration per action, and return.  *)
(***************************************************************************)
PaybackInit ==
    /\ pc = "payback_init"
    /\ payback' = NotReached
    /\ cum' = Zero
    /\ i' = 0
    /\ pc' = "payback"
    /\ UNCHANGED <<inputs, benefits, projection, indicators, irrvars,
                   fault, fault_line>>

\* Mutant: if cum > 0.
PaybackHitStrict(c) == RLt(Zero, c)

\* Line 200: if cum >= 0.
PaybackHit(c) == RGeq(c, Zero)

PaybackIter ==
    /\ pc = "payback"
    /\ i < Len(flow_net)
    /\ cum' = RAdd(cum, flow_net[i + 1])
    /\ \/ /\ PaybackHit(cum')
          /\ payback' = Year(i)
          /\ pc' = "done"
          /\ UNCHANGED i
       \/ /\ ~PaybackHit(cum')
          /\ i' = i + 1
          /\ UNCHANGED <<payback, pc>>
    /\ UNCHANGED <<inputs, benefits, projection, indicators, irrvars,
                   fault, fault_line>>

PaybackExit ==
    /\ pc = "payback"
    /\ i >= Len(flow_net)
    /\ pc' = "done"
    /\ UNCHANGED <<inputs, benefits, projection, indicators, irrvars, paybackvars,
                   fault, fault_line>>

Next ==
    \/ Setup
    \/ LoopIter
    \/ LoopExit
    \/ Indicators
    \/ IrrStep
    \/ PaybackInit
    \/ PaybackIter
    \/ PaybackExit

Spec == Init /\ [][Next]_vars

(***************************************************************************)
(* Properties.  The reference notions below are stated on their own, from  *)
(* the specification's wording, not through the operators that model the   *)
(* code.                                                                   *)
(***************************************************************************)
AfterLoop == pc \in {"indicators", "irr", "payback_init", "payback", "done"}
AfterIndicators == pc \in {"irr", "payback_init", "payback", "done"}

RECURSIVE CumSum(_, _)
\* flow[1] + ... + flow[k]: the cumulative undiscounted flow of years 0..k-1
CumSum(flow, k) == IF k = 0 THEN Zero ELSE RAdd(CumSum(flow, k - 1), flow[k])

\* The years whose cumulative undiscounted flow is >= 0.
RecoveredYears(flow) ==
    {y \in 0..(Len(flow) - 1) : RGeq(CumSum(flow, y + 1), Zero)}

\* discountFactor(y) = (1 + discountRate) ^ -y
DiscountFactor(y) == RDiv(One, RPow(RAdd(One, discount_rate), y))

RECURSIVE DiscountSum(_)
\* discountFactor(1) + ... + discountFactor(h)
DiscountSum(h) == IF h <= 0 THEN Zero ELSE RAdd(DiscountSum(h - 1), DiscountFactor(h))

RECURSIVE DiscountedFlow(_, _)
\* sum over years y < k of flow[y + 1] * discountFactor(y)
DiscountedFlow(flow, k) ==
    IF k = 0 THEN Zero
    ELSE RAdd(DiscountedFlow(flow, k - 1), RMul(flow[k], DiscountFactor(k - 1)))

\* C1: the reported payback is the smallest year whose cumulative undiscounted
\* net flow is >= 0 (every earlier year is strictly negative), and it is
\* "Not Reached" exactly when no year of 0..horizon has a non-negative
\* cumulative flow; capital 40 with a net flow of 50 in years 1..3 pays back in
\* year 1.
C1_PaybackIsFirstRecoveredYear ==
    (pc = "done" /\ horizon >= 0) =>
        /\ (payback = NotReached) <=> (RecoveredYears(flow_net) = {})
        /\ payback # NotReached =>
              /\ payback.kind = "year"
              /\ payback.year \in RecoveredYears(flow_net)
              /\ \A y \in 0..(payback.year - 1) : RLt(CumSum(flow_net, y + 1), Zero)
        /\ flow_net = <<R(0 - 40), R(50), R(50), R(50)>> => payback = Year(1)

C1_Witness ==
    /\ pc = "done"
    /\ flow_net = <<R(0 - 40), R(50), R(50), R(50)>>
    /\ payback = Year(1)

\* C2: a failed IRR computation (npf.irr raised, or found no rate) is reported
\* as a value that is no number; in particular never as the number 0.
C2_FailedIrrIsNotANumber ==
    (pc = "done" /\ irr_call \in {"raise", "nan"}) => irr.kind \notin {"num", "root"}

\* C3: for horizon >= 0 the flow sequence has one entry per year 0..horizon, in
\* year order without gaps; year 0 is -capitalCost and every later year is
\* (time + operating cost + safety + emission benefit) - (build maintenance -
\* base maintenance).
C3_FlowSequence ==
    /\ pc = "loop" => Len(flow_net) = t
    /\ (AfterLoop /\ horizon >= 0) =>
          /\ Len(flow_net) = horizon + 1
          /\ flow_net[1] = RSub(Zero, cost_construct)
          /\ \A k \in 2..(horizon + 1) :
                flow_net[k] =
                    RSub(RAdd(RAdd(RAdd(BenTimeAnnual, BenVocAnnual), BenSafetyAnnual),
                              BenEmissionAnnual),
                         RSub(cost_maint_build, cost_maint_base))

C3_Witness ==
    /\ pc = "done"
    /\ horizon = MaxHorizon
    /\ cost_construct = R(20)
    /\ cost_maint_build # cost_maint_base
    /\ flow_net[2] # Zero
    /\ flow_net[2] # flow_net[1]

\* C4: an input that breaks the data-model invariants (horizon < 0, a speed
\* <= 0, a length <= 0, discountRate = -1) makes the engine fail with
\* InvalidParameter: it neither returns nor raises a division fault.
InvalidInput ==
    \/ horizon < 0
    \/ RGeq(Zero, base_speed)
    \/ RGeq(Zero, build_speed)
    \/ RGeq(Zero, base_length)
    \/ RGeq(Zero, build_length)
    \/ discount_rate = R(0 - 1)

C4_InvalidInputIsLabeled ==
    InvalidInput =>
        /\ fault # "ZeroDivisionError"
        /\ pc # "done"
        /\ pc = "raised" => fault = "InvalidParameter"

\* C5: bcr is totalBenefitsPV / totalCostsPV when totalCostsPV (capital PV plus
\* maintenance-delta PV) is not 0, and the sentinel 0, with nothing raised, when
\* it is 0.
C5_BcrOrSentinel ==
    /\ AfterIndicators =>
          /\ total_pv_cost = RAdd(results_breakdown["Capital"], results_breakdown["O&M"])
          /\ total_pv_cost # Zero => RMul(bcr, total_pv_cost) = total_pv_ben
          /\ total_pv_cost = Zero => bcr = Zero
    /\ fault_line \notin 182..187

C5_Witness ==
    /\ pc = "done"
    /\ total_pv_cost = Zero
    /\ RLt(Zero, cost_construct)
    /\ RLt(cost_maint_net_annual, Zero)
    /\ total_pv_ben # Zero
    /\ bcr = Zero

\* C6: the four benefit totals add up to totalBenefitsPV, Capital + O&M to
\* totalCostsPV, npv is their difference; Capital is the nominal capital cost
\* whatever the discount rate, and every other total is its annual value times
\* discountFactor(1) + ... + discountFactor(horizon).
C6_CategoryDecomposition ==
    (AfterIndicators /\ horizon >= 0) =>
        LET rb == results_breakdown
            ds == DiscountSum(horizon)
        IN  /\ RAdd(RAdd(RAdd(rb["Time"], rb["VOC"]), rb["Safety"]), rb["Emissions"])
                  = total_pv_ben
            /\ RAdd(rb["Capital"], rb["O&M"]) = total_pv_cost
            /\ npv = RSub(total_pv_ben, total_pv_cost)
            /\ rb["Capital"] = cost_construct
            /\ rb["Time"] = RMul(ben_time_annual, ds)
            /\ rb["VOC"] = RMul(ben_voc_annual, ds)
            /\ rb["Safety"] = RMul(ben_safety_annual, ds)
            /\ rb["Emissions"] = RMul(ben_emission_annual, ds)
            /\ rb["O&M"] = RMul(cost_maint_net_annual, ds)

C6_Witness ==
    /\ pc = "done"
    /\ horizon = MaxHorizon
    /\ discount_rate = One
    /\ cost_construct = R(40)
    /\ results_breakdown["Capital"] = R(40)
    /\ results_breakdown["O&M"] # Zero
    /\ results_breakdown["O&M"] # RMul(cost_maint_net_annual, R(horizon))
    /\ results_breakdown["Time"] # Zero
    /\ results_breakdown["Emissions"] # Zero

\* C7: with horizon = 0 the flow sequence is the single entry -capitalCost, npv
\* is -capitalCost for every discount rate and scenario, and payback is
\* "Not Reached" unless capitalCost <= 0, when it is year 0.
C7_ZeroHorizon ==
    (pc = "done" /\ horizon = 0) =>
        /\ flow_net = <<RNeg(cost_construct)>>
        /\ npv = RNeg(cost_construct)
        /\ payback = IF RGeq(Zero, cost_construct) THEN Year(0) ELSE NotReached

C7_Witness ==
    /\ pc = "done"
    /\ horizon = 0
    /\ discount_rate = One
    /\ cost_construct = R(20)
    /\ ben_time_annual # Zero
    /\ payback = NotReached
    /\ npv = R(0 - 20)

\* C8: when the Base and Build legs are identical and the two maintenance costs
\* are equal, the four annual benefits and the maintenance delta are 0, every
\* net flow of years 1..horizon is 0, and for every horizon >= 0 npv =
\* -capitalCost and bcr = 0 (0 / capitalCost when capitalCost is not 0, the
\* sentinel when it is).
IdenticalScenarios ==
    /\ base_adt = build_adt
    /\ base_speed = build_speed
    /\ base_length = build_length
    /\ base_acc_rate = build_acc_rate
    /\ cost_maint_base = cost_maint_build

C8_IdenticalScenarios ==
    IdenticalScenarios =>
        /\ pc \notin {"setup", "raised"} =>
              /\ ben_time_annual = Zero
              /\ ben_voc_annual = Zero
              /\ ben_safety_annual = Zero
              /\ ben_emission_annual = Zero
              /\ cost_maint_net_annual = Zero
              /\ \A k \in 2..Len(flow_net) : flow_net[k] = Zero
        /\ (AfterIndicators /\ horizon >= 0) =>
              /\ npv = RNeg(cost_construct)
              /\ bcr = Zero
              /\ (cost_construct # Zero) = (total_pv_cost # Zero)

C8_Witness ==
    /\ IdenticalScenarios
    /\ pc = "done"
    /\ horizon = MaxHorizon
    /\ discount_rate = One
    /\ cost_construct = R(20)
    /\ cost_maint_base = R(10)
    /\ Len(flow_net) = MaxHorizon + 1

\* C9: when the IRR step fails (npf.irr raises or finds no rate) run_cba raises
\* nothing, goes on to return, and npv, bcr, payback and the category totals
\* are what the projection alone determines, as when the IRR step succeeds.
C9_IrrFailureIsLocal ==
    irr_call \in {"raise", "nan"} =>
        /\ fault = "none"
        /\ pc \in {"payback_init", "payback", "done"}
        /\ pc = "done" \/ ENABLED Next
        /\ npv = DiscountedFlow(flow_net, Len(flow_net))
        /\ results_breakdown["Capital"] = (IF horizon >= 0 THEN cost_construct ELSE Zero)
        /\ results_breakdown["O&M"] = RMul(cost_maint_net_annual, DiscountSum(horizon))
        /\ total_pv_cost # Zero => RMul(bcr, total_pv_cost) = total_pv_ben
        /\ pc = "done" =>
              IF RecoveredYears(flow_net) = {} THEN payback = NotReached
              ELSE /\ payback.kind = "year"
                   /\ \A y \in RecoveredYears(flow_net) : payback.year <= y

C9_Witness ==
    /\ pc = "done"
    /\ irr_call = "raise"
    /\ horizon >= 2
    /\ payback = Year(1)
    /\ npv # Zero
    /\ bcr # Zero

\* C10: the npv read off the category totals is the discounted sum of the
\* flow_net sequence that IRR and payback consume; so at discountRate = 0 npv
\* is the final cumulative undiscounted flow, and npv >= 0 there implies that
\* payback is reached.
C10_PathsAgree ==
    (AfterIndicators /\ horizon >= 0) =>
        /\ npv = DiscountedFlow(flow_net, Len(flow_net))
        /\ discount_rate = Zero =>
              /\ npv = CumSum(flow_net, Len(flow_net))
              /\ (pc = "done" /\ RGeq(npv, Zero)) => payback # NotReached

C10_Witness ==
    /\ pc = "done"
    /\ discount_rate = Zero
    /\ horizon >= 2
    /\ RLt(Zero, cost_construct)
    /\ npv = Zero
    /\ payback = Year(horizon)
=============================================================================
